---- MODULE Spec2Model ----
(***************************************************************************)
(* Payment session of src/app/page.tsx: a React component that creates an  *)
(* ephemeral wallet, counts a payment window down, polls the wallet's      *)
(* balance and forwards the funds to the seller.                           *)
(*                                                                         *)
(* The file holds two variants of the component: the fixed-parameter one   *)
(* (lines 1-347, no setup form) and the configurable one (lines 349-798).  *)
(* The variable "variant" selects which one runs.                          *)
(*                                                                         *)
(* Modelling decisions                                                     *)
(*  - One action is one JavaScript task: a timer callback, a click         *)
(*    handler, or the continuation of checkBalance after an await.  The    *)
(*    re-render and the useEffect cleanup/setup that follow the task's     *)
(*    setState calls belong to the same action, so the two intervals are   *)
(*    armed exactly when tempWallet is set and status is "waiting".        *)
(*  - Time is counted in countdown ticks (1000 ms).  The poll interval is  *)
(*    due after PollTicks countdown ticks of the same arming; both         *)
(*    intervals are created by the same effect flush.                      *)
(*  - The ledger (connection.getBalance / sendTransaction /                *)
(*    confirmTransaction) is the environment: a balance query answers      *)
(*    with any value of BalanceValues or fails, a transfer is confirmed or *)
(*    fails, each after an arbitrary delay.                                *)
(*  - Amounts are exact: lamports are integers, SOL amounts are pairs      *)
(*    (whole SOL, lamports below one SOL); the rounding of JavaScript      *)
(*    doubles is not modelled.                                             *)
(*  - A transfer built with a negative lamports value is either handed to  *)
(*    the ledger or makes SystemProgram.transfer throw, depending on the   *)
(*    version of the web3 library; both outcomes are allowed.              *)
(***************************************************************************)
EXTENDS Integers, Sequences, FiniteSets, Bags, TLC

(* ---------------------------- bounds ---------------------------------- *)
\* payment window in countdown ticks (PAYMENT_WINDOW of the source is 300)
MaxWindow == 5
\* countdown ticks per poll tick (POLLING_INTERVAL / 1000 ms is 5 in the source)
PollTicks == 2
\* keypairs generated in one run
MaxSessions == 2
\* getBalance calls in flight at once
MaxPolls == 2
\* transfers in flight at once
MaxTransfers == 2
\* seconds that are let pass while a session's countdown is off
MaxStall == 2

(* --------------------------- constants -------------------------------- *)
LAMPORTS_PER_SOL == 1000000000
FEE_RESERVE == 5000
MAX_AMOUNT == 100

PAYMENT_WINDOW == MaxWindow
POLLING_INTERVAL == PollTicks

SELLER_ADDRESS == "9RKn"
DEFAULT_SELLER_ADDRESS == "9RKn"
\* "0.05" and "0.01" as the characters of the literal
REQUIRED_AMOUNT == <<"0", ".", "0", "5">>
DEFAULT_AMOUNT == <<"0", ".", "0", "1">>

Null == "null"
NoWallet == 0
\* txSignature === null
NoSignature == << >>

\* texts the seller-address input can hold; the second is not base58
AddressInputs == {DEFAULT_SELLER_ADDRESS, "0OIl"}
\* texts the amount input (type="number") can hold: a number or ""
AmountInputs == { <<>>, <<"0">>, <<"-", "1">>, <<"1", "0", "1">>,
                  DEFAULT_AMOUNT, <<"0", ".", "0", "0", "0", "0", "0", "1">> }
\* balances, in lamports, that the ledger may report
BalanceValues == {0, 1000, 5000, 9999999, 10000000, 50000000}

(* ------------------------- pure functions ----------------------------- *)
DigitChars == {"0", "1", "2", "3", "4", "5", "6", "7", "8", "9"}

DigitOf(c) ==
  CASE c = "0" -> 0 [] c = "1" -> 1 [] c = "2" -> 2 [] c = "3" -> 3
    [] c = "4" -> 4 [] c = "5" -> 5 [] c = "6" -> 6 [] c = "7" -> 7
    [] c = "8" -> 8 [] c = "9" -> 9

\* first index at or after i that does not hold a digit
RECURSIVE DigitsEnd(_, _)
DigitsEnd(s, i) ==
  IF i <= Len(s) /\ s[i] \in DigitChars THEN DigitsEnd(s, i + 1) ELSE i

\* value of the digits s[i..j-1]
RECURSIVE IntValue(_, _, _)
IntValue(s, i, j) ==
  IF j <= i THEN 0 ELSE IntValue(s, i, j - 1) * 10 + DigitOf(s[j - 1])

RECURSIVE Pow10(_)
Pow10(n) == IF n <= 0 THEN 1 ELSE 10 * Pow10(n - 1)

\* the fraction digits s[i..j-1] in lamports (nine places)
RECURSIVE FracValue(_, _, _, _)
FracValue(s, i, j, place) ==
  IF i >= j \/ place > 9 THEN 0
  ELSE DigitOf(s[i]) * Pow10(9 - place) + FracValue(s, i + 1, j, place + 1)

NaN == [nan |-> TRUE, neg |-> FALSE, whole |-> 0, frac |-> 0]

\* parseFloat: optional sign, digits, optional "." and digits; the longest
\* such prefix is the value, NaN when it holds no digit.  (Exponents do not
\* occur in AmountInputs.)
parseFloat(s) ==
  LET signed == Len(s) >= 1 /\ s[1] \in {"-", "+"}
      a == IF signed THEN 2 ELSE 1
      b == DigitsEnd(s, a)
      dot == b <= Len(s) /\ s[b] = "."
      c == IF dot THEN DigitsEnd(s, b + 1) ELSE b
      nFrac == IF dot THEN c - (b + 1) ELSE 0
  IN  IF b - a = 0 /\ nFrac = 0 THEN NaN
      ELSE [nan |-> FALSE,
            neg |-> signed /\ s[1] = "-",
            whole |-> IntValue(s, a, b),
            frac |-> IF dot THEN FracValue(s, b + 1, c, 1) ELSE 0]

IsZero(v) == v.whole = 0 /\ v.frac = 0

\* balance / LAMPORTS_PER_SOL
ToSol(lamports) ==
  [nan |-> FALSE, neg |-> FALSE,
   whole |-> lamports \div LAMPORTS_PER_SOL, frac |-> lamports % LAMPORTS_PER_SOL]

\* x >= y on numbers; false when either is NaN
GreaterOrEqual(x, y) ==
  /\ ~x.nan /\ ~y.nan
  /\ LET xn == x.neg /\ ~IsZero(x)
         yn == y.neg /\ ~IsZero(y)
         magGE(p, q) == p.whole > q.whole \/ (p.whole = q.whole /\ p.frac >= q.frac)
     IN  IF xn /= yn THEN yn
         ELSE IF xn THEN magGE(y, x) ELSE magGE(x, y)

Zero == [nan |-> FALSE, neg |-> FALSE, whole |-> 0, frac |-> 0]
Hundred == [nan |-> FALSE, neg |-> FALSE, whole |-> MAX_AMOUNT, frac |-> 0]

\* new PublicKey(address) does not throw
validateAddress(address) == address = DEFAULT_SELLER_ADDRESS

\* validateAmount without the "greater than 0" test
validateAmount_NoLowerBound(value) ==
  LET numValue == parseFloat(value)
  IN  IF numValue.nan THEN "Amount must be a valid number"
      ELSE IF GreaterOrEqual(numValue, Hundred) /\ ~GreaterOrEqual(Hundred, numValue)
           THEN "Amount must be less than or equal to 100 SOL"
      ELSE Null

validateAmount(value) ==
  LET numValue == parseFloat(value)
  IN  IF numValue.nan THEN "Amount must be a valid number"
      ELSE IF GreaterOrEqual(Zero, numValue) THEN "Amount must be greater than 0"
      ELSE IF GreaterOrEqual(numValue, Hundred) /\ ~GreaterOrEqual(Hundred, numValue)
           THEN "Amount must be less than or equal to 100 SOL"
      ELSE Null

(* ------------------------------ state --------------------------------- *)
VARIABLES
  variant,        \* "fixed" or "configurable"
  tempWallet,     \* NoWallet or the number of the generated keypair
  timeLeft,
  status,
  balance,        \* last polled balance (lamports; displayed in SOL)
  txSignature,
  error,
  sellerAddress,
  addressError,
  amount,
  amountError,
  pollAge,        \* countdown ticks since the poll interval was armed or fired
  polls,          \* bag of getBalance calls in flight
  transfers,      \* bag of sendTransaction/confirmTransaction calls in flight
  issued,         \* keypairs generated so far
  succeeded,      \* wallets from which a transfer has been confirmed
  stalled,        \* seconds gone by for the session while its countdown was off
  funded          \* the ledger holds the target or more at the session's wallet

vars == <<variant, tempWallet, timeLeft, status, balance, txSignature, error,
          sellerAddress, addressError, amount, amountError, pollAge, polls,
          transfers, issued, succeeded, stalled, funded>>

formVars == <<sellerAddress, addressError, amount, amountError>>

\* the effect guards without the status test
Armed_AnyStatus(wallet, st) == wallet /= NoWallet

\* both useEffect guards: if (!tempWallet || status !== 'waiting') return
Armed(wallet, st) == wallet /= NoWallet /\ st = "waiting"

\* effect cleanup/setup after a render: the intervals survive only when the
\* dependencies did not change, otherwise they are created anew
Rearm(age) ==
  pollAge' = IF Armed(tempWallet, status) /\ Armed(tempWallet', status') THEN age ELSE 0

Init ==
  /\ variant \in {"fixed", "configurable"}
  /\ tempWallet = NoWallet
  /\ timeLeft = PAYMENT_WINDOW
  /\ status = IF variant = "fixed" THEN "waiting" ELSE "setup"
  /\ balance = 0
  /\ txSignature = NoSignature
  /\ error = Null
  /\ sellerAddress = DEFAULT_SELLER_ADDRESS
  /\ addressError = Null
  /\ amount = IF variant = "fixed" THEN REQUIRED_AMOUNT ELSE DEFAULT_AMOUNT
  /\ amountError = Null
  /\ pollAge = 0
  /\ polls = EmptyBag
  /\ transfers = EmptyBag
  /\ issued = 0
  /\ succeeded = {}
  /\ stalled = 0
  /\ funded = FALSE

(* ----------------------------- actions -------------------------------- *)
\* the new session without setBalance(0)
NewSession_KeepsBalance ==
  /\ issued < MaxSessions
  /\ issued' = issued + 1
  /\ tempWallet' = issued + 1
  /\ timeLeft' = PAYMENT_WINDOW
  /\ status' = "waiting"
  /\ balance' = balance
  /\ txSignature' = NoSignature
  /\ error' = Null
  /\ stalled' = 0
  /\ funded' = FALSE

\* body shared by generateNewWallet and the accepting branch of
\* startPaymentFlow: Keypair.generate() and the six setters
NewSession ==
  /\ issued < MaxSessions
  /\ issued' = issued + 1
  /\ tempWallet' = issued + 1
  /\ timeLeft' = PAYMENT_WINDOW
  /\ status' = "waiting"
  /\ balance' = 0
  /\ txSignature' = NoSignature
  /\ error' = Null
  /\ stalled' = 0
  /\ funded' = FALSE

\* fixed variant: the mount effect, and the "Start New Payment" button
generateNewWallet ==
  /\ variant = "fixed"
  /\ \/ tempWallet = NoWallet /\ issued = 0
     \/ tempWallet /= NoWallet /\ status \in {"forwarded", "expired"}
  /\ NewSession
  /\ UNCHANGED <<variant, formVars, polls, transfers, succeeded>>
  /\ Rearm(0)

\* onChange of the seller-address input (rendered in setup only)
setSellerAddress(value) ==
  /\ variant = "configurable" /\ status = "setup"
  /\ sellerAddress' = value
  /\ addressError' = Null
  /\ UNCHANGED <<variant, stalled, funded, tempWallet, timeLeft, status,
                 balance, txSignature,
                 error, amount, amountError, pollAge, polls, transfers,
                 issued, succeeded>>

\* onChange of the amount input (rendered in setup only)
handleAmountChange(value) ==
  /\ variant = "configurable" /\ status = "setup"
  /\ amount' = value
  /\ amountError' = Null
  /\ UNCHANGED <<variant, stalled, funded, tempWallet, timeLeft, status,
                 balance, txSignature,
                 error, sellerAddress, addressError, pollAge, polls, transfers,
                 issued, succeeded>>

startPaymentFlow ==
  /\ variant = "configurable" /\ status = "setup"
  /\ IF ~validateAddress(sellerAddress)
     THEN /\ addressError' = "Invalid Solana address"
          /\ amountError' = Null
          /\ UNCHANGED <<stalled, funded, tempWallet, timeLeft, status, balance,
                         txSignature,
                         error, issued, pollAge>>
     ELSE IF validateAmount(amount) /= Null
     THEN /\ addressError' = Null
          /\ amountError' = validateAmount(amount)
          /\ UNCHANGED <<stalled, funded, tempWallet, timeLeft, status, balance,
                         txSignature,
                         error, issued, pollAge>>
     ELSE /\ addressError' = Null
          /\ amountError' = Null
          /\ NewSession
          /\ Rearm(0)
  /\ UNCHANGED <<variant, sellerAddress, amount, polls, transfers, succeeded>>

\* resetFlow without setTempWallet(null)
resetFlow_KeepsWallet ==
  /\ variant = "configurable"
  /\ status \in {"forwarded", "expired"}
  /\ status' = "setup"
  /\ tempWallet' = tempWallet
  /\ error' = Null
  /\ txSignature' = NoSignature
  /\ UNCHANGED <<variant, stalled, funded, timeLeft, balance, formVars, polls, transfers,
                 issued, succeeded>>
  /\ Rearm(0)

\* resetFlow also restoring the full window
resetFlow_RestoresWindow ==
  /\ variant = "configurable"
  /\ status \in {"forwarded", "expired"}
  /\ status' = "setup"
  /\ tempWallet' = NoWallet
  /\ error' = Null
  /\ txSignature' = NoSignature
  /\ timeLeft' = PAYMENT_WINDOW
  /\ UNCHANGED <<variant, stalled, funded, balance, formVars, polls, transfers,
                 issued, succeeded>>
  /\ Rearm(0)

\* configurable variant: the "Start New Payment" button
resetFlow ==
  /\ variant = "configurable"
  /\ status \in {"forwarded", "expired"}
  /\ status' = "setup"
  /\ tempWallet' = NoWallet
  /\ error' = Null
  /\ txSignature' = NoSignature
  /\ UNCHANGED <<variant, stalled, funded, timeLeft, balance, formVars, polls, transfers,
                 issued, succeeded>>
  /\ Rearm(0)

\* the countdown callback expiring one tick late (prev <= 0)
CountdownTick_LateExpiry ==
  /\ Armed(tempWallet, status)
  /\ pollAge < POLLING_INTERVAL
  /\ IF timeLeft <= 0
     THEN /\ timeLeft' = 0
          /\ status' = "expired"
          /\ pollAge' = 0
     ELSE /\ timeLeft' = timeLeft - 1
          /\ status' = status
          /\ pollAge' = pollAge + 1
  /\ UNCHANGED <<variant, stalled, funded, tempWallet, balance, txSignature, error, formVars,
                 polls, transfers, issued, succeeded>>

\* callback of the 1000 ms interval
CountdownTick ==
  /\ Armed(tempWallet, status)
  /\ pollAge < POLLING_INTERVAL
  /\ IF timeLeft <= 1
     THEN /\ timeLeft' = 0
          /\ status' = "expired"
          /\ pollAge' = 0
     ELSE /\ timeLeft' = timeLeft - 1
          /\ status' = status
          /\ pollAge' = pollAge + 1
  /\ UNCHANGED <<variant, stalled, funded, tempWallet, balance, txSignature, error, formVars,
                 polls, transfers, issued, succeeded>>

\* the getBalance call as checkBalance's closure issues it
PollCall == [wallet |-> tempWallet, seller |-> sellerAddress, amount |-> amount]

\* callback of the poll interval: checkBalance up to its first await
PollTick ==
  /\ Armed(tempWallet, status)
  /\ pollAge = POLLING_INTERVAL
  /\ BagCardinality(polls) < MaxPolls
  /\ polls' = polls (+) SetToBag({PollCall})
  /\ pollAge' = 0
  /\ UNCHANGED <<variant, stalled, funded, tempWallet, timeLeft, status,
                 balance, txSignature,
                 error, formVars, transfers, issued, succeeded>>

\* the threshold test with > in place of >=
ThresholdMet_Strict(b, p) ==
  /\ GreaterOrEqual(ToSol(b), parseFloat(p.amount))
  /\ ~GreaterOrEqual(parseFloat(p.amount), ToSol(b))

\* the threshold test on the lamports, the division left out
ThresholdMet_Lamports(b, p) ==
  GreaterOrEqual([nan |-> FALSE, neg |-> FALSE, whole |-> b, frac |-> 0],
                 parseFloat(p.amount))

\* balanceInSol >= requiredAmount
ThresholdMet(b, p) == GreaterOrEqual(ToSol(b), parseFloat(p.amount))

\* the transaction paying whatever the form holds when the answer arrives
TransferCall_CurrentSeller(p, b) ==
  [wallet |-> p.wallet, seller |-> sellerAddress, lamports |-> b - FEE_RESERVE]

\* the transaction checkBalance builds
TransferCall(p, b) ==
  [wallet |-> p.wallet, seller |-> p.seller, lamports |-> b - FEE_RESERVE]

\* the signature sendTransaction returns identifies the transaction
Signature(t) == <<t.wallet, t.seller, t.lamports>>

\* checkBalance after await connection.getBalance resolved with b
GetBalanceResolved(p, b) ==
  /\ BagIn(p, polls)
  /\ polls' = polls (-) SetToBag({p})
  /\ balance' = b
  /\ IF ThresholdMet(b, p)
     THEN \/ \* transaction built and handed to sendTransaction
             /\ BagCardinality(transfers) < MaxTransfers
             /\ transfers' = transfers (+) SetToBag({TransferCall(p, b)})
             /\ status' = "forwarding"
             /\ error' = error
          \/ \* a negative lamports value may make the builder throw
             /\ b - FEE_RESERVE < 0
             /\ transfers' = transfers
             /\ status' = "waiting"
             /\ error' = "Failed to forward payment"
     ELSE /\ transfers' = transfers
          /\ status' = status
          /\ error' = error
  /\ UNCHANGED <<variant, stalled, funded, tempWallet, timeLeft, txSignature, formVars,
                 issued, succeeded>>
  /\ Rearm(pollAge)

\* the outer catch giving the session up
GetBalanceFailed_Fatal(p) ==
  /\ BagIn(p, polls)
  /\ polls' = polls (-) SetToBag({p})
  /\ error' = "Failed to check balance"
  /\ status' = IF status = "waiting" THEN "expired" ELSE status
  /\ pollAge' = 0
  /\ UNCHANGED <<variant, stalled, funded, tempWallet, timeLeft, balance, txSignature,
                 formVars, transfers, issued, succeeded>>

\* checkBalance's outer catch: getBalance rejected
GetBalanceFailed(p) ==
  /\ BagIn(p, polls)
  /\ polls' = polls (-) SetToBag({p})
  /\ error' = "Failed to check balance"
  /\ UNCHANGED <<variant, stalled, funded, tempWallet, timeLeft, status,
                 balance, txSignature,
                 formVars, pollAge, transfers, issued, succeeded>>

\* the success path without setTxSignature(signature)
TransferConfirmed_NoSignature(t) ==
  /\ BagIn(t, transfers)
  /\ t.lamports >= 0
  /\ transfers' = transfers (-) SetToBag({t})
  /\ txSignature' = txSignature
  /\ status' = "forwarded"
  /\ succeeded' = succeeded \cup {t.wallet}
  /\ funded' = IF t.wallet = tempWallet THEN FALSE ELSE funded
  /\ UNCHANGED <<variant, stalled, tempWallet, timeLeft, balance, error, formVars,
                 polls, issued>>
  /\ Rearm(pollAge)

\* checkBalance after sendTransaction and confirmTransaction resolved
TransferConfirmed(t) ==
  /\ BagIn(t, transfers)
  /\ t.lamports >= 0
  /\ transfers' = transfers (-) SetToBag({t})
  /\ txSignature' = Signature(t)
  /\ status' = "forwarded"
  /\ succeeded' = succeeded \cup {t.wallet}
  /\ funded' = IF t.wallet = tempWallet THEN FALSE ELSE funded
  /\ UNCHANGED <<variant, stalled, tempWallet, timeLeft, balance, error, formVars,
                 polls, issued>>
  /\ Rearm(pollAge)

\* the inner catch also restarting the payment window
TransferFailed_RestartsWindow(t) ==
  /\ BagIn(t, transfers)
  /\ transfers' = transfers (-) SetToBag({t})
  /\ error' = "Failed to forward payment"
  /\ status' = "waiting"
  /\ timeLeft' = PAYMENT_WINDOW
  /\ UNCHANGED <<variant, stalled, funded, tempWallet, balance, txSignature,
                 formVars, polls, issued, succeeded>>
  /\ Rearm(pollAge)

\* the inner catch ending the session instead of returning it to Waiting
TransferFailed_Expires(t) ==
  /\ BagIn(t, transfers)
  /\ transfers' = transfers (-) SetToBag({t})
  /\ error' = "Failed to forward payment"
  /\ status' = "expired"
  /\ pollAge' = 0
  /\ UNCHANGED <<variant, stalled, funded, tempWallet, timeLeft, balance, txSignature,
                 formVars, polls, issued, succeeded>>

\* checkBalance's inner catch: sendTransaction or confirmTransaction rejected
TransferFailed(t) ==
  /\ BagIn(t, transfers)
  /\ transfers' = transfers (-) SetToBag({t})
  /\ error' = "Failed to forward payment"
  /\ status' = "waiting"
  /\ UNCHANGED <<variant, stalled, funded, tempWallet, timeLeft, balance, txSignature,
                 formVars, polls, issued, succeeded>>
  /\ Rearm(pollAge)

Next ==
  \/ generateNewWallet
  \/ \E value \in AddressInputs : setSellerAddress(value)
  \/ \E value \in AmountInputs : handleAmountChange(value)
  \/ startPaymentFlow
  \/ resetFlow
  \/ CountdownTick
  \/ PollTick
  \/ \E p \in BagToSet(polls) : \E b \in BalanceValues : GetBalanceResolved(p, b)
  \/ \E p \in BagToSet(polls) : GetBalanceFailed(p)
  \/ \E t \in BagToSet(transfers) : TransferConfirmed(t)
  \/ \E t \in BagToSet(transfers) : TransferFailed(t)

Spec == Init /\ [][Next]_vars

TypeOK ==
  /\ status \in {"setup", "waiting", "forwarding", "forwarded", "expired"}
  /\ tempWallet \in 0..MaxSessions
  /\ timeLeft \in 0..PAYMENT_WINDOW
  /\ balance \in BalanceValues
  /\ pollAge \in 0..POLLING_INTERVAL
  /\ issued \in 0..MaxSessions
  /\ stalled \in 0..MaxStall
  /\ funded \in BOOLEAN

(* ------------------------ fair specification -------------------------- *)
\* The specification for liveness: the configurable variant with the form
\* left at its defaults (target 0.01 SOL) and the ledger reporting either
\* nothing or exactly the target.  Both intervals keep firing while they are
\* armed and every ledger call is eventually answered; clicks are never
\* forced.
LiveBalances == {0, 10000000}

FairInit == Init /\ variant = "configurable"

FairNext ==
  \/ startPaymentFlow
  \/ resetFlow
  \/ CountdownTick
  \/ PollTick
  \/ \E p \in BagToSet(polls) : \E b \in LiveBalances : GetBalanceResolved(p, b)
  \/ \E p \in BagToSet(polls) : GetBalanceFailed(p)
  \/ \E t \in BagToSet(transfers) : TransferConfirmed(t)
  \/ \E t \in BagToSet(transfers) : TransferFailed(t)

Fairness ==
  /\ WF_vars(CountdownTick)
  /\ WF_vars(PollTick)
  /\ WF_vars(\E p \in BagToSet(polls) :
               \/ \E b \in LiveBalances : GetBalanceResolved(p, b)
               \/ GetBalanceFailed(p))
  /\ WF_vars(\E t \in BagToSet(transfers) :
               TransferConfirmed(t) \/ TransferFailed(t))

FairSpec == FairInit /\ [][FairNext]_vars /\ Fairness

(* --------------------- unfunded specification ------------------------- *)
\* The specification for sessions that are never funded: the configurable
\* variant with the form left at its defaults (target 0.01 SOL) and the
\* ledger reporting nothing or one lamport less than the target, or failing.
LowBalances == {0, 9999999}

NoFundsNext ==
  \/ startPaymentFlow
  \/ resetFlow
  \/ CountdownTick
  \/ PollTick
  \/ \E p \in BagToSet(polls) : \E b \in LowBalances : GetBalanceResolved(p, b)
  \/ \E p \in BagToSet(polls) : GetBalanceFailed(p)

NoFundsSpec == FairInit /\ [][NoFundsNext]_vars

(* ----------------------- timed specification -------------------------- *)
\* Spec and FairSpec count time by the countdown callback alone and leave
\* the time that goes by while no countdown interval exists untracked.  The
\* timed specification adds it: a second of wall time passing while the
\* session is in Forwarding, where the countdown effect has cleared its
\* interval and not created a new one.
ForwardingSecond ==
  /\ tempWallet /= NoWallet /\ status = "forwarding"
  /\ stalled < MaxStall
  /\ stalled' = stalled + 1
  /\ UNCHANGED <<variant, funded, tempWallet, timeLeft, status, balance,
                 txSignature, error, formVars, pollAge, polls, transfers,
                 issued, succeeded>>

TimedNext ==
  \/ startPaymentFlow
  \/ resetFlow
  \/ CountdownTick
  \/ PollTick
  \/ \E p \in BagToSet(polls) : \E b \in LiveBalances : GetBalanceResolved(p, b)
  \/ \E p \in BagToSet(polls) : GetBalanceFailed(p)
  \/ \E t \in BagToSet(transfers) : TransferConfirmed(t)
  \/ \E t \in BagToSet(transfers) : TransferFailed(t)
  \/ ForwardingSecond

TimedSpec == FairInit /\ [][TimedNext]_vars

\* seconds since the start of the session: the ticks counted down plus the
\* seconds that passed uncounted
Elapsed == (PAYMENT_WINDOW - timeLeft) + stalled

\* the target of a session started with amount text a, in lamports
TargetOf(a) == parseFloat(a).whole * LAMPORTS_PER_SOL + parseFloat(a).frac

(* ----------------------- funded specification ------------------------- *)
\* Spec lets getBalance answer anything at any time.  The funded
\* specification gives the ledger a memory: the buyer pays the target once,
\* at some moment while the session is in Waiting, and from then on every
\* getBalance for the session's wallet answers the target; before that, and
\* for other wallets, it answers 0.  The ledger always answers.
Deposit ==
  /\ Armed(tempWallet, status)
  /\ ~funded
  /\ funded' = TRUE
  /\ UNCHANGED <<variant, stalled, tempWallet, timeLeft, status, balance,
                 txSignature, error, formVars, pollAge, polls, transfers,
                 issued, succeeded>>

LedgerBalance(p) ==
  IF funded /\ p.wallet = tempWallet THEN TargetOf(p.amount) ELSE 0

FundedNext ==
  \/ startPaymentFlow
  \/ resetFlow
  \/ CountdownTick
  \/ PollTick
  \/ Deposit
  \/ \E p \in BagToSet(polls) : GetBalanceResolved(p, LedgerBalance(p))
  \/ \E t \in BagToSet(transfers) : TransferConfirmed(t)
  \/ \E t \in BagToSet(transfers) : TransferFailed(t)

FundedSpec == FairInit /\ [][FundedNext]_vars

(* ------------------------- claim vocabulary --------------------------- *)
Wallets == 1..MaxSessions

RECURSIVE SumCopies(_, _)
SumCopies(B, S) ==
  IF S = {} THEN 0
  ELSE LET x == CHOOSE y \in S : TRUE
       IN  CopiesIn(x, B) + SumCopies(B, S \ {x})

\* calls in flight that were issued for wallet w
PollsFrom(w) == SumCopies(polls, {p \in BagToSet(polls) : p.wallet = w})
TransfersFrom(w) == SumCopies(transfers, {t \in BagToSet(transfers) : t.wallet = w})

\* this step answers the getBalance call p / the transfer call t
AnswersPoll(p) == BagIn(p, polls) /\ polls' = polls (-) SetToBag({p})
AnswersTransfer(t) == BagIn(t, transfers) /\ transfers' = transfers (-) SetToBag({t})
\* this step hands the transaction t to the ledger
Submits(t) == CopiesIn(t, transfers') > CopiesIn(t, transfers)
SubmitsAny == \E t \in BagToSet(transfers') : Submits(t)

\* only resetFlow (configurable) and generateNewWallet (fixed) end a session
EndsSession == status' = "setup" \/ tempWallet' /= tempWallet

(* ------------------------------ claims -------------------------------- *)

\* C1: no transfer from a wallet is submitted while another transfer from
\* that wallet is in flight, and none after one from it has been confirmed:
\* at most one transfer per wallet is in flight, and none once one succeeded.
C1_NoDoubleForwarding ==
  \A w \in Wallets :
    /\ TransfersFrom(w) <= 1
    /\ w \in succeeded => TransfersFrom(w) = 0

\* C2: once Expired, no step other than the start of a new session changes
\* the status, and no step submits a transfer.
C2_ExpiredIsFinal ==
  [][status = "expired" =>
       /\ status' = "expired" \/ EndsSession
       /\ ~SubmitsAny]_vars

\* C3: the answer to a getBalance or transfer call that was issued for a
\* wallet other than the current one changes none of status, balance,
\* txSignature and error, and submits no transfer.
C3_StaleAnswersIgnored ==
  [][(\/ \E p \in BagToSet(polls) : p.wallet /= tempWallet /\ AnswersPoll(p)
      \/ \E t \in BagToSet(transfers) : t.wallet /= tempWallet /\ AnswersTransfer(t))
     => /\ UNCHANGED <<status, balance, txSignature, error>>
        /\ ~SubmitsAny]_vars

\* C4: for each wallet at most one checkBalance invocation is in progress,
\* that is, waiting for its getBalance or its transfer to be answered.
C4_PollsSerialised ==
  \A w \in Wallets : PollsFrom(w) + TransfersFrom(w) <= 1

\* C5: once Forwarded, the status changes only by the start of a new session.
C5_ForwardedIsFinal ==
  [][status = "forwarded" => status' = "forwarded" \/ EndsSession]_vars

\* C6: every submitted transfer carries the polled balance minus the fee
\* reserve and that amount is positive; a poll whose balance meets the target
\* but leaves no positive amount submits nothing, records an error and leaves
\* the session in Waiting.
C6_ForwardAmountLaw ==
  [][/\ \A t \in BagToSet(transfers') :
          Submits(t) => t.lamports = balance' - FEE_RESERVE /\ t.lamports > 0
     /\ \A p \in BagToSet(polls) :
          (AnswersPoll(p) /\ balance' /= balance /\ ThresholdMet(balance', p)
             /\ balance' - FEE_RESERVE <= 0)
          => ~SubmitsAny /\ error' /= Null /\ status' = "waiting"]_vars


\* this step is the answer b to a poll of the current session in Waiting
CurrentPollAnswered(p, b) ==
  status = "waiting" /\ p.wallet = tempWallet /\ GetBalanceResolved(p, b)

C8_FailedForwardRecovery ==
  [][/\ \A t \in BagToSet(transfers) :
          TransferFailed(t) =>
            /\ status' = "waiting"
            /\ error' /= Null
            /\ txSignature' = NoSignature
            /\ balance' = balance
            /\ timeLeft' = timeLeft
     /\ (status = "forwarding" /\ status' = "forwarding") => timeLeft' = timeLeft]_vars

\* C9: under FairSpec a session in Waiting eventually reaches Forwarded or
\* Expired.
C9_SessionTerminates ==
  (status = "waiting" /\ tempWallet /= NoWallet)
    ~> (status \in {"forwarded", "expired"})

\* C9 witness: a forward has failed and the session is back in Waiting with
\* part of the window used up.
C9_Witness ==
  /\ status = "waiting" /\ tempWallet /= NoWallet
  /\ error = "Failed to forward payment"
  /\ timeLeft < PAYMENT_WINDOW /\ timeLeft > 0

\* inputs that must be rejected: not base58 / not a number, <= 0, > 100
InvalidAddressInputs == {"0OIl"}
InvalidAmountInputs == { <<>>, <<"0">>, <<"-", "1">>, <<"1", "0", "1">> }

\* C10: a start with an invalid address or amount leaves the status Setup,
\* sets the error of the first failing field, generates no keypair, arms no
\* timer and changes nothing else.
C10_RejectedStart ==
  [][(startPaymentFlow
        /\ (sellerAddress \in InvalidAddressInputs \/ amount \in InvalidAmountInputs))
     => /\ status' = "setup"
        /\ tempWallet' = NoWallet /\ issued' = issued
        /\ ~Armed(tempWallet', status')
        /\ sellerAddress \in InvalidAddressInputs =>
             addressError' /= Null /\ amountError' = Null
        /\ sellerAddress \notin InvalidAddressInputs =>
             amountError' /= Null /\ addressError' = Null
        /\ UNCHANGED <<timeLeft, balance, txSignature, error, polls, transfers,
                       pollAge, sellerAddress, amount>>]_vars

\* C10 witness: a start with amount "0" has been rejected.
C10_Witness ==
  /\ status = "setup" /\ amount = <<"0">> /\ amountError = "Amount must be greater than 0"
  /\ tempWallet = NoWallet /\ issued = 0

\* inputs that must be accepted
ValidAddressInputs == {"9RKn"}
ValidAmountInputs == { <<"0", ".", "0", "1">>,
                       <<"0", ".", "0", "0", "0", "0", "0", "1">> }

\* C11: a start in Setup with a valid address and amount moves the session
\* to Waiting with a wallet that no earlier session had, the full window, an
\* observed balance of 0, no transaction id and no error; and the largest
\* amount, 100 SOL, is a valid one.
C11_AcceptedStart ==
  [][(startPaymentFlow
        /\ sellerAddress \in ValidAddressInputs /\ amount \in ValidAmountInputs)
     => /\ status' = "waiting"
        /\ tempWallet' \in Wallets /\ tempWallet' \notin 1..issued
        /\ timeLeft' = PAYMENT_WINDOW
        /\ balance' = 0
        /\ txSignature' = NoSignature
        /\ error' = Null
        /\ addressError' = Null /\ amountError' = Null
        /\ validateAmount(<<"1", "0", "0">>) = Null]_vars

\* C11 witness: a second session has just been started and holds a wallet
\* other than the first session's.
C11_Witness ==
  /\ variant = "configurable" /\ status = "waiting"
  /\ tempWallet = 2 /\ issued = 2
  /\ timeLeft = PAYMENT_WINDOW /\ balance = 0
  /\ txSignature = NoSignature /\ error = Null

\* C12: a getBalance that fails while the session is in Waiting sets the
\* error and changes nothing else: the state stays Waiting, the observed
\* balance, the transaction id and the remaining time are unchanged, nothing is
\* submitted, and both timers stay armed with the poll interval's phase
\* untouched, so the next poll tick issues a new query.
C12_PollFailureTransient ==
  [][\A p \in BagToSet(polls) :
       (GetBalanceFailed(p) /\ status = "waiting")
       => /\ error' = "Failed to check balance"
          /\ status' = "waiting"
          /\ UNCHANGED <<balance, txSignature, timeLeft, tempWallet, transfers>>
          /\ pollAge' = pollAge
          /\ Armed(tempWallet', status') = Armed(tempWallet, status)]_vars

\* C12 witness: a session in Waiting after a failed getBalance, its timers
\* armed and no transfer submitted.
C12_Witness ==
  /\ Armed(tempWallet, status)
  /\ error = "Failed to check balance"
  /\ transfers = EmptyBag /\ txSignature = NoSignature
  /\ timeLeft > 0

\* C13: the remaining time of a session goes down, and a new getBalance is
\* issued, only in a step taken from Waiting with a wallet held; once a step
\* has left Waiting or reset the session the timers are off (the poll
\* interval's phase is back at zero) and stay off until the session is in
\* Waiting again.
C13_ClocksOnlyInWaiting ==
  [][/\ (tempWallet' = tempWallet /\ timeLeft' < timeLeft)
          => (status = "waiting" /\ tempWallet /= NoWallet)
     /\ BagCardinality(polls') > BagCardinality(polls)
          => (status = "waiting" /\ tempWallet /= NoWallet)
     /\ (CountdownTick \/ PollTick) => status = "waiting"
     /\ status' /= "waiting" => pollAge' = 0]_vars

\* C13 witness: a session in Forwarding, part of its window used up, with the
\* poll interval cancelled.
C13_Witness ==
  /\ status = "forwarding" /\ tempWallet /= NoWallet
  /\ timeLeft > 0 /\ timeLeft < PAYMENT_WINDOW
  /\ pollAge = 0

\* C14: the session returns to Setup only from Forwarded or Expired, and then
\* holds no wallet, no transaction id and no error; a valid start that follows
\* a reset gives the snapshot of a first start (Waiting, full window, observed
\* balance 0, nothing else set) with a wallet that is new.
C14_Reset ==
  [][/\ (status' = "setup" /\ status /= "setup")
          => /\ status \in {"forwarded", "expired"}
             /\ tempWallet' = NoWallet
             /\ txSignature' = NoSignature
             /\ error' = Null
     /\ (startPaymentFlow /\ issued >= 1
           /\ sellerAddress \in ValidAddressInputs /\ amount \in ValidAmountInputs)
          => /\ <<status', timeLeft', balance', txSignature', error'>>
                  = <<"waiting", PAYMENT_WINDOW, 0, NoSignature, Null>>
             /\ tempWallet' = issued + 1]_vars

\* C14 witness: Setup after a reset of a session that had observed a balance
\* and used part of its window.
C14_Witness ==
  /\ status = "setup" /\ issued >= 1
  /\ tempWallet = NoWallet /\ txSignature = NoSignature /\ error = Null
  /\ balance > 0 /\ timeLeft < PAYMENT_WINDOW

\* C15: in every reachable state whose status is Forwarded or Expired the
\* session no longer holds the ephemeral wallet's keypair.
C15_KeyDiscardedAtTerminal ==
  status \in {"forwarded", "expired"} => tempWallet = NoWallet

\* C16: in every reachable state the transaction id is set only if the
\* status is Forwarded.
C16_TxIdOnlyInForwarded ==
  txSignature /= NoSignature => status = "forwarded"

\* C17: after each of Setup->Waiting, Waiting->Forwarding and
\* Forwarding->Forwarded the error is null.
C17_ErrorClearedOnAdvance ==
  [][(\/ status = "setup" /\ status' = "waiting"
      \/ status = "waiting" /\ status' = "forwarding"
      \/ status = "forwarding" /\ status' = "forwarded")
     => error' = Null]_vars

\* the session is back in Waiting after a failed forward, time remaining
RetryPending ==
  /\ Armed(tempWallet, status)
  /\ error = "Failed to forward payment"
  /\ timeLeft > 0

C19_SubThresholdPollFrame ==
  [][\A p \in BagToSet(polls) : \A b \in BalanceValues :
       (CurrentPollAnswered(p, b) /\ b < TargetOf(amount))
       => /\ status' = "waiting"
          /\ balance' = b
          /\ UNCHANGED <<txSignature, error, tempWallet, timeLeft, pollAge,
                         transfers, formVars>>]_vars

\* C19 witness: a poll returned one lamport less than the target and the
\* session waits on, nothing else set.
C19_Witness ==
  /\ Armed(tempWallet, status) /\ amount = DEFAULT_AMOUNT
  /\ balance = 9999999
  /\ txSignature = NoSignature /\ error = Null /\ transfers = EmptyBag

\* C20: when every poll returns a balance below the target, a session starts
\* with the full window, its remaining time goes down by exactly one per
\* countdown tick and by nothing else, and it leaves Waiting for Expired in
\* the very tick that brings the remaining time to 0, which is the
\* PAYMENT_WINDOW-th; no transfer is ever submitted; and the observed balance
\* is 0 from the start and afterwards only ever what a poll returned, so with
\* the ledger at 0 it is still 0 at Expired.
C20_ExpiryWithoutFunds ==
  [][/\ transfers' = EmptyBag /\ succeeded' = {}
     /\ status' \in {"setup", "waiting", "expired"}
     /\ tempWallet' /= tempWallet /\ tempWallet' /= NoWallet
          => timeLeft' = PAYMENT_WINDOW /\ balance' = 0
     /\ (tempWallet' = tempWallet /\ timeLeft' /= timeLeft)
          => status = "waiting" /\ timeLeft' = timeLeft - 1
     /\ status = "waiting"
          => (status' = "expired" <=> (timeLeft' = 0 /\ timeLeft = 1))
     /\ status' = "waiting" => timeLeft' >= 1
     /\ (tempWallet' = tempWallet /\ balance' /= balance)
          => \E p \in BagToSet(polls) : \E b \in LowBalances :
               GetBalanceResolved(p, b) /\ balance' = b]_vars

\* C20 witness: a session expired with its window used up, the wallet never
\* funded and nothing observed.
C20_Witness ==
  /\ status = "expired" /\ timeLeft = 0 /\ tempWallet /= NoWallet
  /\ balance = 0 /\ transfers = EmptyBag /\ txSignature = NoSignature

\* C21: when the current session's transfer is confirmed in Forwarding the
\* status becomes Forwarded and the transaction id is the one of that
\* transfer; Forwarded is entered by a confirmed transfer only and
\* Forwarding by a poll answer at or above the target of the poll only, so a
\* session started from Setup whose first poll is at or above the target and
\* whose transfer is confirmed passes through Setup, Waiting, Forwarding,
\* Forwarded.
C21_SuccessfulForward ==
  [][/\ \A t \in BagToSet(transfers) :
          (TransferConfirmed(t) /\ status = "forwarding" /\ t.wallet = tempWallet)
          => /\ status' = "forwarded"
             /\ txSignature' = <<t.wallet, t.seller, t.lamports>>
             /\ UNCHANGED <<tempWallet, balance, timeLeft>>
     /\ (status' = "forwarded" /\ status /= "forwarded")
          => \E t \in BagToSet(transfers) : AnswersTransfer(t) /\ t.wallet \in succeeded'
     /\ (status' = "forwarding" /\ status /= "forwarding")
          => \E p \in BagToSet(polls) :
               AnswersPoll(p) /\ balance' >= TargetOf(p.amount) /\ SubmitsAny]_vars

\* C21 witness: the session is Forwarded with the id of the transfer of its
\* own wallet to its own seller, after an untroubled run.
C21_Witness ==
  /\ status = "forwarded" /\ tempWallet /= NoWallet
  /\ txSignature = <<tempWallet, sellerAddress, balance - FEE_RESERVE>>
  /\ error = Null /\ transfers = EmptyBag /\ polls = EmptyBag

\* C22: a session that has not reached Forwarded is Expired once the window
\* has elapsed since its start, the time spent in Forwarding included: no
\* session is still in Waiting or Forwarding with more than PAYMENT_WINDOW
\* seconds behind it.
C22_AbsoluteDeadline ==
  (tempWallet /= NoWallet /\ status \in {"waiting", "forwarding"})
  => Elapsed <= PAYMENT_WINDOW

\* C23: a getBalance is issued for the wallet, seller address and amount of
\* the session in Waiting; a transfer is submitted only in answer to a
\* getBalance and spends from the wallet and pays the seller address of that
\* call, an address that passed validation; and the seller address and the
\* amount do not change in the start nor while a wallet is held or the status
\* is other than Setup, so the calls of the current session carry its own
\* endpoints.
C23_EndpointsFixed ==
  [][/\ \A t \in BagToSet(transfers') :
          Submits(t) => /\ \E p \in BagToSet(polls) :
                             /\ AnswersPoll(p)
                             /\ t.wallet = p.wallet /\ t.seller = p.seller
                        /\ t.wallet \in 1..issued
                        /\ validateAddress(t.seller)
     /\ \A p \in BagToSet(polls') :
          CopiesIn(p, polls') > CopiesIn(p, polls)
          => /\ tempWallet /= NoWallet
             /\ p = [wallet |-> tempWallet, seller |-> sellerAddress,
                     amount |-> amount]
     /\ (tempWallet /= NoWallet \/ status /= "setup" \/ startPaymentFlow)
          => UNCHANGED <<sellerAddress, amount>>
     /\ \A p \in BagToSet(polls) :
          p.wallet = tempWallet => p.seller = sellerAddress /\ p.amount = amount
     /\ \A t \in BagToSet(transfers) :
          t.wallet = tempWallet => t.seller = sellerAddress]_vars

\* C23 witness: after a reset the form holds another address, and the
\* transfer that a late answer of the old session triggered still spends
\* from the old session's wallet to the old session's seller.
C23_Witness ==
  \E t \in BagToSet(transfers) :
    /\ t.wallet \in 1..issued /\ t.wallet /= tempWallet
    /\ t.seller = DEFAULT_SELLER_ADDRESS /\ sellerAddress /= t.seller

\* C24: in every reachable state something is pending or offered: in Setup
\* the start, in Forwarded and Expired the reset, in Forwarding a transfer in
\* flight, and in Waiting a wallet, which arms both timers (or, before the
\* first wallet of the fixed variant, the mount effect); Waiting or
\* Forwarding with no wallet and no ledger call in flight does not occur.
C24_NoStuckState ==
  /\ status = "setup" => variant = "configurable"
  /\ status \in {"forwarded", "expired"}
       => ENABLED (resetFlow \/ generateNewWallet) \/ issued = MaxSessions
  /\ status = "forwarding" => transfers /= EmptyBag
  /\ status = "waiting"
       => Armed(tempWallet, status) \/ (variant = "fixed" /\ issued = 0)
  /\ ~ /\ status \in {"waiting", "forwarding"}
       /\ tempWallet = NoWallet /\ issued > 0
       /\ polls = EmptyBag /\ transfers = EmptyBag

\* a transfer of the current session has been submitted: it is in flight,
\* was confirmed, or failed (the only error of the funded specification)
ForwardAttempted ==
  \/ TransfersFrom(tempWallet) > 0
  \/ tempWallet \in succeeded
  \/ error = "Failed to forward payment"

\* C25: when the target has arrived at the session's wallet while the
\* session was in Waiting and stays there, the session does not go from
\* Waiting to Expired without a transfer having been submitted; stated for
\* the expiries at which every getBalance issued has been answered, so that
\* a slow ledger is not what decides.
C25_FundsPickedUp ==
  [][(funded /\ polls = EmptyBag /\ status = "waiting" /\ status' = "expired")
     => ForwardAttempted]_vars

\* C26: the remaining time is always between 0 and PAYMENT_WINDOW; it goes
\* up only in a step that starts a session, and then to the full window; and
\* whenever the status is Expired the remaining time is 0.
C26_CountdownInvariant ==
  [][/\ timeLeft \in 0..PAYMENT_WINDOW /\ timeLeft' \in 0..PAYMENT_WINDOW
     /\ timeLeft' > timeLeft
          => /\ startPaymentFlow \/ generateNewWallet
             /\ tempWallet' = issued + 1
             /\ timeLeft' = PAYMENT_WINDOW
     /\ status = "expired" => timeLeft = 0
     /\ status' = "expired" => timeLeft' = 0]_vars

\* C26 witness: Setup after the reset of an expired session, the remaining
\* time still 0.
C26_Witness ==
  /\ status = "setup" /\ issued >= 1 /\ tempWallet = NoWallet
  /\ timeLeft = 0
====
